---- MODULE Spec2Model ----
(***************************************************************************)
(* Model of the translation engine of translatity                          *)
(* (src/translation/translator.py): APIKeyRotator and SRTTranslator, with  *)
(* the progress file and the output file of one output path.               *)
(*                                                                         *)
(* Texts.  A text (input file, API reply, progress file, output file) is   *)
(* represented by the sequence of its non-empty, stripped, blank-line      *)
(* separated segments, which is what re.split(r'\n\s*\n') followed by      *)
(* strip() computes at translator.py:267.  A segment is an integer:        *)
(*    n > 0   a well-formed block (index line, timing line, text) whose    *)
(*            exact text is identified by n,                               *)
(*    0       a segment without a leading index line (prose of the API).   *)
(* A stripped segment holds no blank line, so '\n\n'.join(blocks) is the   *)
(* text whose segments are exactly blocks.                                 *)
(*                                                                         *)
(* Three specifications share the variables:                               *)
(*    Spec        calls of translate_file on one engine instance,          *)
(*    UnitSpec    APIKeyRotator, _check_near_completion, the backoff       *)
(*                functions and the two block functions, each called alone *)
(*                (the block functions on texts given line by line),       *)
(*    WindowSpec  MainWindow and its TranslationWorker threads             *)
(*                (src/gui/main_window.py).                                *)
(***************************************************************************)
EXTENDS Integers, Sequences, FiniteSets, TLC

(* ------------------------------ bounds -------------------------------- *)
\* number of blocks of the non-empty input file; at least 100 are needed
\* for a count below the total to reach the 99% threshold
MaxBlocks == 100
\* longest API reply that is enumerated segment by segment
MaxReplyLen == 1
\* largest number of credentials the engine is constructed with
MaxKeys == 2
\* number of translate_file calls made on the engine instance
MaxJobs == 2

\* number of calls of _check_near_completion made on the tracker taken alone
MaxObservations == 4
\* largest attempt number _calculate_backoff is called with
MaxAttempt == 6
\* largest number of text lines of a block, and of blocks of a text, of the
\* texts count_srt_blocks and extract_srt_blocks are compared on
MaxTextLines == 2
MaxSrtBlocks == 2
\* where the de-duplication of replies is taken alone: the number of blocks a
\* continuation reply is drawn from, and the number of segments of the longest
\* such reply
MaxContinueBlocks == 2
MaxContinueLen == 3
\* number of files of the queue of the main window
MaxQueue == 2
\* number of TranslationWorker threads the main window creates
MaxWorkers == 3

(* ------------------------- program constants -------------------------- *)
base_delay == 30
max_retries == 5
max_backoff == 300
NearPercent == 99
NearStreak == 2

NoFile == "NoFile"
None == "None"
\* a chat session as start_chat() returns it, with an empty history, and a
\* session whose history holds the first message (the input text)
EmptySession == "session"
InputSession == "session with input"

VARIABLES
  \* APIKeyRotator
  api_keys, current_key_index, exhausted_keys,
  \* SRTTranslator
  chat, near_completion_count, last_block_count,
  \* the disk: files of the job's output path
  progress_file, output_file,
  \* the running translate_file call
  pc, save_progress, total_blocks, translated_content, retry_count,
  \* observation of the run (history, not read by the program)
  event, resumed, first_sent, quota_fails, job_streak, job_last, jobs,
  \* the component under study, and the arguments and results of the calls
  \* made on a component taken alone
  unit, cycles, observations, returned, delay, slept, srt_text, counted, extracted,
  response, requests,
  \* MainWindow and its TranslationWorker threads
  file_queue, failed_files, is_translation_running, current_file_index,
  translate_button, retry_button, workers, signals, timers

\* the variables of the calls made on a component taken alone
bench == <<unit, cycles, observations, returned, delay, slept, srt_text, counted,
           extracted, response, requests>>

\* the variables of the main window
window == <<file_queue, failed_files, is_translation_running, current_file_index,
            translate_button, retry_button, workers, signals, timers>>

vars == <<api_keys, current_key_index, exhausted_keys, chat,
          near_completion_count, last_block_count, progress_file, output_file,
          pc, save_progress, total_blocks, translated_content, retry_count,
          event, resumed, first_sent, quota_fails, job_streak, job_last, jobs,
          bench, window>>

(* ------------------------------ helpers ------------------------------- *)
Range(a, b) == [i \in 1..(b - a + 1) |-> a + i - 1]

SeqsUpTo(S, n) == UNION {[1..k -> S] : k \in 0..n}

(* ---------------------------- block codec ----------------------------- *)
IsIndexed(seg) == seg # 0
HasTiming(seg) == seg > 0

count_srt_blocks(content) == Len(SelectSeq(content, HasTiming))

extract_srt_blocks(content) == SelectSeq(content, IsIndexed)

JoinBlocks(blocks) == blocks

(* --------------------------- APIKeyRotator ---------------------------- *)
\* the credential lists the engine is constructed with: pairwise distinct
\* keys, or the same key entered several times
KeyLists ==
  {Range(1, n) : n \in 1..MaxKeys} \cup {[i \in 1..n |-> 1] : n \in 2..MaxKeys}

get_current_key(keys, index) == keys[index + 1]

rotate_key(keys, index) == (index + 1) % Len(keys)

mark_key_exhausted(exhausted, key) == exhausted \cup {key}

\* has_available_keys with the comparison off by one
has_available_keys_Lax(exhausted, keys) == Cardinality(exhausted) <= Len(keys)

has_available_keys(exhausted, keys) == Cardinality(exhausted) < Len(keys)

(* ------------------------ completion heuristic ------------------------ *)
\* the threshold taken as a fraction of 1 instead of a percentage
NearComplete_Fraction(current, total) == current * 100 * 100 >= NearPercent * total

\* (current_blocks / total_blocks) * 100 >= 99, in integers
NearComplete(current, total) == current * 100 >= NearPercent * total

\* a streak that goes on whether or not the count changed
NearCount_NoRestart(current, total, count, last) ==
  IF NearComplete(current, total) THEN count + 1 ELSE 0

\* the streak counter after _check_near_completion(current, total)
NearCount(current, total, count, last) ==
  IF NearComplete(current, total)
    THEN IF current = last THEN count + 1 ELSE 1
    ELSE 0

\* a stop that needs one more observation
NearStop_Late(count) == count > NearStreak

\* the value _check_near_completion returns, from the updated counter
NearStop(count) == count >= NearStreak

(* ------------------------- request execution -------------------------- *)
\* the retry test without the "- 1" of translator.py:112
RetriesExhausted_Late(rc) == rc >= max_retries

\* translator.py:112, the test that sends a quota error to exhaustion handling
RetriesExhausted(rc) == rc >= max_retries - 1

\* the recursion of translator.py:114 passing retry_count on
AttemptKept == retry_count

\* the attempt number the request is retried with after a rotation
AttemptAfterRotation == 0

(* ------------------------------ backoff ------------------------------- *)
Min(a, b) == IF a <= b THEN a ELSE b

\* a delay that keeps doubling
BackoffDelay_Uncapped(rc) == base_delay * (2 ^ rc)

\* translator.py:123, the delay before jitter
BackoffDelay(rc) == Min(max_backoff, base_delay * (2 ^ rc))

\* translator.py:124, the values of random.uniform(0, 0.1 * delay) in whole
\* seconds, both ends included
Jitter(d) == 0..(d \div 10)

\* the values _calculate_backoff(rc) can return
calculate_backoff(rc) == {BackoffDelay(rc) + j : j \in Jitter(BackoffDelay(rc))}

\* a wait computed from the attempt number itself
wait_with_backoff_Same(rc) == IF rc > 0 THEN calculate_backoff(rc) ELSE {0}

\* the time _wait_with_backoff(rc) can sleep (no call of sleep is 0)
wait_with_backoff(rc) == IF rc > 0 THEN calculate_backoff(rc - 1) ELSE {0}

(* ---------------------- block codec, line by line --------------------- *)
\* A text as the sequence of its lines, each line one of four kinds: "index"
\* (digits only), "timing" (hh:mm:ss,mmm --> ...), "text" (any other
\* non-blank line) and "blank" (empty or white space only).
LineKinds == {"index", "timing", "text", "blank"}

\* the line after place i that is not blank, 0 when there is none
NextNonBlank(lines, i) ==
  LET later == {j \in (i + 1)..Len(lines) : lines[j] # "blank"}
  IN  IF later = {} THEN 0 ELSE CHOOSE j \in later : \A k \in later : j <= k

\* translator.py:262, the matches of ^\d+\s*\n\d{2}:\d{2}:\d{2},\d{3}\s*-->
\* an index line whose next non-blank line is a timing line (\s* runs over
\* blank lines)
CountMatches(lines) ==
  {i \in 1..Len(lines) :
     /\ lines[i] = "index"
     /\ NextNonBlank(lines, i) # 0
     /\ lines[NextNonBlank(lines, i)] = "timing"}

count_srt_lines(lines) == Cardinality(CountMatches(lines))

\* translator.py:267, the pieces of re.split(r'\n\s*\n') that are not empty
\* when stripped: the maximal runs of non-blank lines, by first and last place
SegmentStarts(lines) ==
  SelectSeq([i \in 1..Len(lines) |-> i],
            LAMBDA i : lines[i] # "blank" /\ (i = 1 \/ lines[i - 1] = "blank"))

SegmentEnd(lines, i) ==
  CHOOSE j \in i..Len(lines) :
    /\ \A k \in i..j : lines[k] # "blank"
    /\ (j = Len(lines) \/ lines[j + 1] = "blank")

\* translator.py:268, the segments that match ^\d+\s*\n: an index line and
\* at least one more line
extract_srt_lines(lines) ==
  LET starts == SelectSeq(SegmentStarts(lines),
                          LAMBDA i : lines[i] = "index" /\ SegmentEnd(lines, i) > i)
  IN  [k \in 1..Len(starts) |-> SubSeq(lines, starts[k], SegmentEnd(lines, starts[k]))]

\* the kinds of line the text of a subtitle can hold: a non-blank line
TextLineKinds == LineKinds \ {"blank"}

\* a well-formed block: index line, timing line, one or more text lines
WellFormedBlocks ==
  {<<"index", "timing">> \o t :
     t \in SeqsUpTo(TextLineKinds, MaxTextLines) \ {<< >>}}

\* blocks joined with one blank line between them
RECURSIVE JoinLines(_)
JoinLines(bs) ==
  IF bs = << >> THEN << >>
  ELSE IF Len(bs) = 1 THEN bs[1]
  ELSE bs[1] \o <<"blank">> \o JoinLines(Tail(bs))

\* the clean concatenations of at most MaxSrtBlocks well-formed blocks
CleanTexts == {JoinLines(bs) : bs \in SeqsUpTo(WellFormedBlocks, MaxSrtBlocks)}

(* --------------------------- translate_file --------------------------- *)
\* the input files a job is started on: an empty file, and a file of
\* MaxBlocks blocks after a line of prose
InputFiles == {<< >>, <<0>> \o Range(1, MaxBlocks)}

\* the replies of the API to a job of `total` blocks.  A short reply is any
\* sequence of at most MaxReplyLen segments among prose, the last block and
\* one block too many; the first request may also be answered by the first
\* total-1, total or total+1 blocks at once, or by the last block given twice
ReplySegments(total) == {0, total, total + 1}
ShortReplies(total) == SeqsUpTo(ReplySegments(total), MaxReplyLen)
LongReplies(total) == {Range(1, k) : k \in {total - 1, total, total + 1} \cap Nat}
RepeatedReplies(total) == {<<total, total>>}
Replies(first, total) ==
  IF first
    THEN ShortReplies(total) \cup LongReplies(total) \cup RepeatedReplies(total)
    ELSE ShortReplies(total)

\* a start that reads the progress file whatever save_progress is
LoadProgress_Always(sp, progress) ==
  IF progress # NoFile THEN extract_srt_blocks(progress) ELSE << >>

\* a start that never reads the progress file
LoadProgress_Ignored(sp, progress) == << >>

\* translator.py:164-176, the accumulated blocks a run starts with
LoadProgress(sp, progress) ==
  IF sp /\ progress # NoFile THEN extract_srt_blocks(progress) ELSE << >>

\* translator.py:196-197, the first reply is taken whole
ExtendFirst(acc, reply) == acc \o extract_srt_blocks(reply)

\* a continuation taken whole, like the first reply
AppendAll(acc, blocks) == acc \o blocks

\* translator.py:227-229, a continuation adds the blocks not yet present
\* (a block of the reply is appended when neither the accumulated sequence
\* nor an earlier place of the same reply holds its text)
AppendNew(acc, blocks) ==
  LET places == [i \in 1..Len(blocks) |-> i]
      present == {acc[i] : i \in 1..Len(acc)}
      IsNew(i) == /\ blocks[i] \notin present
                  /\ \A j \in 1..(i - 1) : blocks[j] # blocks[i]
      kept == SelectSeq(places, IsNew)
  IN  acc \o [k \in 1..Len(kept) |-> blocks[kept[k]]]

\* a reply that is not checkpointed
SaveProgress_Skipped(sp, progress, acc) == progress

\* translator.py:204-206 and 238-240, the checkpoint after a reply
SaveProgress(sp, progress, acc) == IF sp THEN JoinBlocks(acc) ELSE progress

\* a completion that leaves the progress file behind
RemoveProgress_Kept(sp, progress) == progress

\* translator.py:246-247, the progress file after the output is written
RemoveProgress(sp, progress) == IF sp /\ progress # NoFile THEN NoFile ELSE progress

Stopped == {"idle", "done", "cancelled", "failed"}
Requesting == {"first_request", "continue_request"}

rotator == <<api_keys, current_key_index, exhausted_keys>>
tracker == <<near_completion_count, last_block_count>>
disk == <<progress_file, output_file>>
job_tracker == <<job_streak, job_last>>

\* no call made yet on a component taken alone
BenchStart ==
  /\ cycles = 0
  /\ observations = << >>
  /\ returned = FALSE
  /\ delay = 0
  /\ slept = 0
  /\ counted = 0
  /\ extracted = << >>
  /\ response = << >>
  /\ requests = 0

\* MainWindow.__init__ (main_window.py:69-72), with no worker created
WindowStart ==
  /\ file_queue = << >>
  /\ failed_files = {}
  /\ is_translation_running = FALSE
  /\ current_file_index = 0
  /\ translate_button = "start_translation_queue"
  /\ retry_button = FALSE
  /\ workers = << >>
  /\ signals = << >>
  /\ timers = 0

\* SRTTranslator.__init__ (translator.py:37-47) and no call of translate_file
EngineStart ==
  /\ current_key_index = 0
  /\ exhausted_keys = {}
  /\ chat = None
  /\ near_completion_count = 0
  /\ last_block_count = 0
  /\ progress_file = NoFile
  /\ output_file = NoFile
  /\ pc = "idle"
  /\ save_progress = TRUE
  /\ total_blocks = 0
  /\ translated_content = << >>
  /\ retry_count = 0
  /\ event = "construct"
  /\ resumed = FALSE
  /\ first_sent = FALSE
  /\ quota_fails = 0
  /\ job_streak = 0
  /\ job_last = 0
  /\ jobs = 0

Init ==
  /\ api_keys \in KeyLists
  /\ EngineStart
  /\ unit = "engine"
  /\ BenchStart
  /\ srt_text = << >>
  /\ WindowStart

\* the input file looked for after the session is opened
StartMissing_Late ==
  /\ pc \in Stopped
  /\ jobs < MaxJobs
  /\ \E sp \in BOOLEAN : save_progress' = sp
  /\ pc' = "failed"
  /\ chat' = EmptySession
  /\ event' = "input_missing"
  /\ jobs' = jobs + 1
  /\ total_blocks' = 0
  /\ translated_content' = << >>
  /\ retry_count' = 0
  /\ resumed' = FALSE
  /\ first_sent' = FALSE
  /\ quota_fails' = 0
  /\ job_streak' = 0
  /\ job_last' = 0
  /\ UNCHANGED <<bench, window, rotator, tracker, disk>>

\* translate_file is called on a missing input file (translator.py:154-155)
StartMissing ==
  /\ pc \in Stopped
  /\ jobs < MaxJobs
  /\ \E sp \in BOOLEAN : save_progress' = sp
  /\ pc' = "failed"
  /\ event' = "input_missing"
  /\ jobs' = jobs + 1
  /\ total_blocks' = 0
  /\ translated_content' = << >>
  /\ retry_count' = 0
  /\ resumed' = FALSE
  /\ first_sent' = FALSE
  /\ quota_fails' = 0
  /\ job_streak' = 0
  /\ job_last' = 0
  /\ UNCHANGED <<bench, window, rotator, chat, tracker, disk>>

\* translate_file up to its first request (translator.py:150-183)
StartJob ==
  /\ pc \in Stopped
  /\ jobs < MaxJobs
  /\ \E input \in InputFiles, sp \in BOOLEAN :
       /\ save_progress' = sp
       /\ total_blocks' = count_srt_blocks(input)
       /\ translated_content' = LoadProgress(sp, progress_file)
  /\ chat' = EmptySession
  /\ pc' = IF translated_content' = << >> THEN "first_request" ELSE "loop"
  /\ resumed' = (translated_content' # << >>)
  /\ event' = "start"
  /\ jobs' = jobs + 1
  /\ retry_count' = 0
  /\ first_sent' = FALSE
  /\ quota_fails' = 0
  /\ job_streak' = 0
  /\ job_last' = 0
  /\ UNCHANGED <<bench, window, rotator, tracker, disk>>

\* a request is answered (translator.py:100-109), and the reply is
\* processed: 196-206 for the first request, 225-240 for a continuation
Response ==
  /\ pc \in Requesting
  /\ \E reply \in Replies(pc = "first_request", total_blocks) :
       translated_content' =
         IF pc = "first_request"
           THEN ExtendFirst(translated_content, reply)
           ELSE AppendNew(translated_content, extract_srt_blocks(reply))
  /\ progress_file' = SaveProgress(save_progress, progress_file, translated_content')
  /\ pc' = "loop"
  /\ event' = "response"
  /\ first_sent' = (first_sent \/ pc = "first_request")
  /\ chat' = IF pc = "first_request" THEN InputSession ELSE chat
  /\ UNCHANGED <<bench, window, rotator, tracker, output_file, save_progress, total_blocks,
                 retry_count, resumed, quota_fails, job_tracker, jobs>>

\* a request fails with ResourceExhausted and a retry remains (115-116)
QuotaRetry ==
  /\ pc \in Requesting
  /\ ~RetriesExhausted(retry_count)
  /\ retry_count' = retry_count + 1
  /\ event' = "quota_retry"
  /\ quota_fails' = quota_fails + 1
  /\ first_sent' = (first_sent \/ pc = "first_request")
  /\ UNCHANGED <<bench, window, rotator, chat, tracker, disk, pc, save_progress, total_blocks,
                 translated_content, resumed, job_tracker, jobs>>

\* a request fails with ResourceExhausted and no retry remains (112-114):
\* _handle_quota_exhaustion (133-141) rotates, or raises
QuotaExhaustion ==
  /\ pc \in Requesting
  /\ RetriesExhausted(retry_count)
  /\ exhausted_keys' =
       mark_key_exhausted(exhausted_keys, get_current_key(api_keys, current_key_index))
  /\ first_sent' = (first_sent \/ pc = "first_request")
  /\ IF has_available_keys(exhausted_keys', api_keys)
       THEN /\ current_key_index' = rotate_key(api_keys, current_key_index)
            /\ retry_count' = AttemptAfterRotation
            /\ quota_fails' = 0
            /\ event' = "quota_rotate"
            /\ UNCHANGED <<pc, chat>>
       ELSE /\ pc' = "failed"
            /\ chat' = None
            /\ event' = "all_exhausted"
            /\ quota_fails' = quota_fails + 1
            /\ UNCHANGED <<current_key_index, retry_count>>
  /\ UNCHANGED <<bench, window, api_keys, tracker, disk, save_progress, total_blocks,
                 translated_content, resumed, job_tracker, jobs>>

\* any other error handled like a quota error with a retry left
ApiError_Retried ==
  /\ pc \in Requesting
  /\ ~RetriesExhausted(retry_count)
  /\ retry_count' = retry_count + 1
  /\ event' = "api_error"
  /\ first_sent' = (first_sent \/ pc = "first_request")
  /\ UNCHANGED <<bench, window, rotator, chat, tracker, disk, pc, save_progress, total_blocks,
                 translated_content, resumed, quota_fails, job_tracker, jobs>>

\* a request fails with any other error (118-120, 253-258)
ApiError ==
  /\ pc \in Requesting
  /\ pc' = "failed"
  /\ chat' = None
  /\ event' = "api_error"
  /\ first_sent' = (first_sent \/ pc = "first_request")
  /\ UNCHANGED <<bench, window, rotator, tracker, disk, save_progress, total_blocks, translated_content,
                 retry_count, resumed, quota_fails, job_tracker, jobs>>

\* translator.py:242-251 and 256-258
Complete(how) ==
  /\ output_file' = JoinBlocks(translated_content)
  /\ progress_file' = RemoveProgress(save_progress, progress_file)
  /\ pc' = "done"
  /\ chat' = None
  /\ event' = how
  /\ UNCHANGED <<bench, window, rotator, save_progress, total_blocks, translated_content, retry_count,
                 resumed, first_sent, quota_fails, jobs>>

\* the loop guard fails (208): the job completes with every block
LoopExit ==
  /\ pc = "loop"
  /\ ~(Len(translated_content) < total_blocks)
  /\ Complete("complete")
  /\ UNCHANGED <<tracker, job_tracker>>

\* the cancellation check placed after _check_near_completion
Cancelled_AfterHeuristic ==
  /\ pc = "loop"
  /\ Len(translated_content) < total_blocks
  /\ near_completion_count' =
       NearCount(Len(translated_content), total_blocks,
                 near_completion_count, last_block_count)
  /\ last_block_count' = Len(translated_content)
  /\ ~NearStop(near_completion_count')
  /\ pc' = "cancelled"
  /\ chat' = None
  /\ event' = "cancelled"
  /\ UNCHANGED <<bench, window, rotator, disk, save_progress, total_blocks, translated_content,
                 retry_count, resumed, first_sent, quota_fails, job_tracker, jobs>>

\* cancel_check() answers true (209-213)
Cancelled ==
  /\ pc = "loop"
  /\ Len(translated_content) < total_blocks
  /\ pc' = "cancelled"
  /\ chat' = None
  /\ event' = "cancelled"
  /\ UNCHANGED <<bench, window, rotator, tracker, disk, save_progress, total_blocks, translated_content,
                 retry_count, resumed, first_sent, quota_fails, job_tracker, jobs>>

\* the heuristic applied before the loop guard is tested
LoopStep_Unguarded ==
  /\ pc = "loop"
  /\ near_completion_count' =
       NearCount(Len(translated_content), total_blocks,
                 near_completion_count, last_block_count)
  /\ last_block_count' = Len(translated_content)
  /\ job_streak' = NearCount(Len(translated_content), total_blocks, job_streak, job_last)
  /\ job_last' = Len(translated_content)
  /\ IF NearStop(near_completion_count')
       THEN Complete("complete_heuristic")
       ELSE /\ pc' = "continue_request"
            /\ retry_count' = 0
            /\ quota_fails' = 0
            /\ event' = "continue"
            /\ UNCHANGED <<bench, window, rotator, chat, disk, save_progress, total_blocks,
                           translated_content, resumed, first_sent, jobs>>

\* cancel_check() answers false and _check_near_completion is applied
\* (215-224): the job stops on the heuristic, or issues a continue request
LoopStep ==
  /\ pc = "loop"
  /\ Len(translated_content) < total_blocks
  /\ near_completion_count' =
       NearCount(Len(translated_content), total_blocks,
                 near_completion_count, last_block_count)
  /\ last_block_count' = Len(translated_content)
  /\ job_streak' = NearCount(Len(translated_content), total_blocks, job_streak, job_last)
  /\ job_last' = Len(translated_content)
  /\ IF NearStop(near_completion_count')
       THEN Complete("complete_heuristic")
       ELSE /\ pc' = "continue_request"
            /\ retry_count' = 0
            /\ quota_fails' = 0
            /\ event' = "continue"
            /\ UNCHANGED <<bench, window, rotator, chat, disk, save_progress, total_blocks,
                           translated_content, resumed, first_sent, jobs>>

Next ==
  \/ StartMissing
  \/ StartJob
  \/ Response
  \/ QuotaRetry
  \/ QuotaExhaustion
  \/ ApiError
  \/ LoopExit
  \/ Cancelled
  \/ LoopStep

Spec == Init /\ [][Next]_vars

TypeOK ==
  /\ pc \in Stopped \cup Requesting \cup {"loop"}
  /\ current_key_index \in 0..(Len(api_keys) - 1)
  /\ retry_count \in 0..(max_retries - 1)

(* ====================================================================== *)
(*                       components taken alone                           *)
(* ====================================================================== *)
Units == {"rotator", "heuristic", "backoff", "codec", "continuation", "request"}

\* the replies to a continue request: up to MaxContinueLen segments among
\* prose and MaxContinueBlocks blocks
ContinueReplies == SeqsUpTo(0..MaxContinueBlocks, MaxContinueLen)

\* the arguments _check_near_completion is called with: a one-block input
\* and an input of MaxBlocks blocks, with no block, all blocks, or one or two
\* blocks missing
ObservedTotals == {1, MaxBlocks}
ObservedCounts(total) == {c \in {0, total - 2, total - 1, total} : c >= 0}

UnitInit ==
  /\ unit \in Units
  /\ api_keys \in (IF unit \in {"rotator", "request"} THEN KeyLists ELSE {<<1>>})
  /\ EngineStart
  /\ BenchStart
  /\ srt_text \in (IF unit = "codec" THEN CleanTexts ELSE {<< >>})
  /\ WindowStart

engine == <<chat, progress_file, output_file, pc, save_progress, total_blocks,
            translated_content, resumed, first_sent, quota_fails, job_tracker, jobs>>

\* one cycle on the rotator: mark_key_exhausted(get_current_key()) and then
\* rotate_key() (translator.py:22-31)
MarkAndRotate ==
  /\ unit = "rotator"
  /\ cycles <= Len(api_keys)
  /\ exhausted_keys' =
       mark_key_exhausted(exhausted_keys, get_current_key(api_keys, current_key_index))
  /\ current_key_index' = rotate_key(api_keys, current_key_index)
  /\ cycles' = cycles + 1
  /\ event' = "mark_and_rotate"
  /\ UNCHANGED <<api_keys, tracker, retry_count, engine, window, unit, response, requests, observations,
                 returned, delay, slept, srt_text, counted, extracted>>

\* a call of _check_near_completion(current, total) (translator.py:83-96)
Observe ==
  /\ unit = "heuristic"
  /\ Len(observations) < MaxObservations
  /\ \E total \in ObservedTotals :
       \E current \in ObservedCounts(total) :
         /\ near_completion_count' =
              NearCount(current, total, near_completion_count, last_block_count)
         /\ last_block_count' = current
         /\ observations' = Append(observations, <<current, total>>)
  /\ returned' = NearStop(near_completion_count')
  /\ event' = "observe"
  /\ UNCHANGED <<rotator, retry_count, engine, window, unit, response, requests, cycles, delay, slept,
                 srt_text, counted, extracted>>

\* a call of _calculate_backoff(retry_count) (translator.py:122-125)
CalculateBackoff ==
  /\ unit = "backoff"
  /\ \E rc \in 0..MaxAttempt :
       /\ retry_count' = rc
       /\ delay' \in calculate_backoff(rc)
  /\ slept' = 0
  /\ event' = "calculate_backoff"
  /\ UNCHANGED <<rotator, tracker, engine, window, unit, response, requests, cycles, observations,
                 returned, srt_text, counted, extracted>>

\* a call of _wait_with_backoff(retry_count) with an attempt number
\* _make_api_request passes (translator.py:100, 127-131)
WaitWithBackoff ==
  /\ unit = "backoff"
  /\ \E rc \in 0..(max_retries - 1) :
       /\ retry_count' = rc
       /\ slept' \in wait_with_backoff(rc)
  /\ delay' = 0
  /\ event' = "wait_with_backoff"
  /\ UNCHANGED <<rotator, tracker, engine, window, unit, response, requests, cycles, observations,
                 returned, srt_text, counted, extracted>>

\* count_srt_blocks and extract_srt_blocks applied to the text
\* (translator.py:260-268)
ParseSrt ==
  /\ unit = "codec"
  /\ event # "parse"
  /\ counted' = count_srt_lines(srt_text)
  /\ extracted' = extract_srt_lines(srt_text)
  /\ event' = "parse"
  /\ UNCHANGED <<rotator, tracker, retry_count, engine, window, unit, response, requests, cycles,
                 observations, returned, delay, slept, srt_text>>

\* a continuation reply is processed (translator.py:225-229)
Continuation ==
  /\ unit = "continuation"
  /\ response' \in ContinueReplies
  /\ translated_content' = AppendNew(translated_content, extract_srt_blocks(response'))
  /\ event' = "response"
  /\ UNCHANGED <<rotator, tracker, retry_count, window, chat, progress_file,
                 output_file, pc, save_progress, total_blocks, resumed, first_sent,
                 quota_fails, job_tracker, jobs, unit, cycles, observations, returned,
                 delay, slept, srt_text, counted, extracted, requests>>

\* a request of _make_api_request fails with ResourceExhausted, as every
\* request of the call does (translator.py:111-116, 133-141)
FailedRequest ==
  /\ unit = "request"
  /\ event # "all_exhausted"
  /\ requests <= max_retries * Len(api_keys)
  /\ requests' = requests + 1
  /\ IF ~RetriesExhausted(retry_count)
       THEN /\ retry_count' = retry_count + 1
            /\ event' = "quota_retry"
            /\ UNCHANGED <<current_key_index, exhausted_keys>>
       ELSE /\ exhausted_keys' =
                 mark_key_exhausted(exhausted_keys,
                                    get_current_key(api_keys, current_key_index))
            /\ IF has_available_keys(exhausted_keys', api_keys)
                 THEN /\ current_key_index' = rotate_key(api_keys, current_key_index)
                      /\ retry_count' = AttemptAfterRotation
                      /\ event' = "quota_rotate"
                 ELSE /\ event' = "all_exhausted"
                      /\ UNCHANGED <<current_key_index, retry_count>>
  /\ UNCHANGED <<api_keys, tracker, engine, window, unit, cycles, observations,
                 returned, delay, slept, srt_text, counted, extracted, response>>

UnitNext ==
  \/ Continuation
  \/ FailedRequest
  \/ MarkAndRotate
  \/ Observe
  \/ CalculateBackoff
  \/ WaitWithBackoff
  \/ ParseSrt

UnitSpec == UnitInit /\ [][UnitNext]_vars

(* ====================================================================== *)
(*              the main window (src/gui/main_window.py)                  *)
(* ====================================================================== *)
\* The window's handlers run one at a time on the main thread: a click, a
\* signal of a worker delivered from the event queue, a single-shot timer.
\* A worker is a thread running translate_file; `running` is true from
\* start() until run() returns.  file_queue holds file identities,
\* failed_files and current_file_index are 0-based as in the code.

\* TranslationWorker.__init__ and start() (main_window.py:23-31, 298-312)
NewWorker(file) == [input_file |-> file, is_cancelled |-> FALSE, running |-> TRUE]

\* the workers whose run() has not returned
Running == {w \in 1..Len(workers) : workers[w].running}

\* enable_retry_if_needed (214-216), the state it gives the retry button
RetryEnabled(failed, busy) == failed # {} /\ ~busy

\* retry_failed_files (224-237): the failed files leave their places, highest
\* index first, and are appended in that order
MoveFailedLast(queue, failed) ==
  LET places == {i \in 1..Len(queue) : (i - 1) \in failed}
      Nth(k) == CHOOSE i \in places : Cardinality({j \in places : j > i}) = k - 1
      stay == SelectSeq([i \in 1..Len(queue) |-> i], LAMBDA i : i \notin places)
  IN  [k \in 1..Len(stay) |-> queue[stay[k]]]
        \o [k \in 1..Cardinality(places) |-> queue[Nth(k)]]

WindowInit ==
  /\ unit = "window"
  /\ api_keys = <<1>>
  /\ EngineStart
  /\ BenchStart
  /\ srt_text = << >>
  /\ file_queue \in {Range(1, n) : n \in 1..MaxQueue}
  /\ failed_files = {}
  /\ is_translation_running = FALSE
  /\ current_file_index = 0
  /\ translate_button = "start_translation_queue"
  /\ retry_button = FALSE
  /\ workers = << >>
  /\ signals = << >>
  /\ timers = 0

translator == <<rotator, tracker, retry_count, engine>>

\* start_translation_queue (272-291) on a queue that holds a file, with a
\* credential entered, and translate_next_file (293-312) at index 0
start_translation_queue(queue) ==
  /\ Len(workers) < MaxWorkers
  /\ is_translation_running' = TRUE
  /\ current_file_index' = 0
  /\ translate_button' = "cancel_translation"
  /\ retry_button' = FALSE
  /\ workers' = Append(workers, NewWorker(queue[1]))

\* queue_translation_complete (363-376)
queue_translation_complete ==
  /\ is_translation_running' = FALSE
  /\ translate_button' = "start_translation_queue"
  /\ retry_button' = IF failed_files # {} THEN TRUE ELSE retry_button

\* the user clicks the translate button while it starts the queue
ClickStart ==
  /\ unit = "window"
  /\ translate_button = "start_translation_queue"
  /\ start_translation_queue(file_queue)
  /\ event' = "click_start"
  /\ UNCHANGED <<translator, bench, file_queue, failed_files, signals, timers>>

\* the user clicks the translate button while it cancels: cancel_translation
\* (322-326) and translation_cancelled (328-334)
ClickCancel ==
  /\ unit = "window"
  /\ translate_button = "cancel_translation"
  /\ workers # << >>
  /\ workers' = [workers EXCEPT ![Len(workers)].is_cancelled = TRUE]
  /\ is_translation_running' = FALSE
  /\ translate_button' = "start_translation_queue"
  /\ retry_button' = RetryEnabled(failed_files, FALSE)
  /\ event' = "click_cancel"
  /\ UNCHANGED <<translator, bench, file_queue, failed_files, current_file_index,
                 signals, timers>>

\* the user clicks the enabled retry button: retry_failed_files (220-244)
ClickRetry ==
  /\ unit = "window"
  /\ retry_button
  /\ failed_files # {}
  /\ file_queue' = MoveFailedLast(file_queue, failed_files)
  /\ failed_files' = {}
  /\ IF ~is_translation_running
       THEN start_translation_queue(file_queue')
       ELSE /\ retry_button' = FALSE
            /\ UNCHANGED <<is_translation_running, current_file_index,
                           translate_button, workers>>
  /\ event' = "click_retry"
  /\ UNCHANGED <<translator, bench, signals, timers>>

\* run() of a worker returns (33-50): translate_file returned or raised, and
\* the signals are queued for the main thread
WorkerEnds ==
  /\ unit = "window"
  /\ \E w \in Running :
       /\ workers' = [workers EXCEPT ![w].running = FALSE]
       /\ \E raised \in BOOLEAN :
            signals' = signals
              \o (IF raised THEN <<"translation_error">>
                  ELSE IF ~workers[w].is_cancelled THEN <<"translation_complete">>
                  ELSE << >>)
              \o <<"finished">>
  /\ event' = "worker_ends"
  /\ UNCHANGED <<translator, bench, file_queue, failed_files, is_translation_running,
                 current_file_index, translate_button, retry_button, timers>>

\* translation_complete is delivered: file_translation_complete (336-341)
DeliverComplete ==
  /\ unit = "window"
  /\ signals # << >>
  /\ Head(signals) = "translation_complete"
  /\ signals' = Tail(signals)
  /\ event' = "file_translation_complete"
  /\ UNCHANGED <<translator, bench, file_queue, failed_files, is_translation_running,
                 current_file_index, translate_button, retry_button, workers, timers>>

\* translation_error is delivered: translation_error (343-351)
DeliverError ==
  /\ unit = "window"
  /\ signals # << >>
  /\ Head(signals) = "translation_error"
  /\ signals' = Tail(signals)
  /\ IF current_file_index < Len(file_queue)
       THEN /\ failed_files' = failed_files \cup {current_file_index}
            /\ retry_button' = RetryEnabled(failed_files', is_translation_running)
       ELSE UNCHANGED <<failed_files, retry_button>>
  /\ event' = "translation_error"
  /\ UNCHANGED <<translator, bench, file_queue, is_translation_running,
                 current_file_index, translate_button, workers, timers>>

\* finished is delivered: translation_finished (353-361)
DeliverFinished ==
  /\ unit = "window"
  /\ signals # << >>
  /\ Head(signals) = "finished"
  /\ signals' = Tail(signals)
  /\ current_file_index' = current_file_index + 1
  /\ IF current_file_index' < Len(file_queue)
       THEN /\ timers' = timers + 1
            /\ UNCHANGED <<is_translation_running, translate_button, retry_button>>
       ELSE /\ is_translation_running' = FALSE
            /\ translate_button' = "start_translation_queue"
            /\ retry_button' = RetryEnabled(failed_files, FALSE)
            /\ UNCHANGED timers
  /\ event' = "translation_finished"
  /\ UNCHANGED <<translator, bench, file_queue, failed_files, workers>>

\* a single-shot timer fires: translate_next_file (293-320)
TimerFires ==
  /\ unit = "window"
  /\ timers > 0
  /\ timers' = timers - 1
  /\ IF current_file_index < Len(file_queue)
       THEN /\ Len(workers) < MaxWorkers
            /\ workers' = Append(workers, NewWorker(file_queue[current_file_index + 1]))
            /\ UNCHANGED <<is_translation_running, translate_button, retry_button>>
       ELSE /\ queue_translation_complete
            /\ UNCHANGED workers
  /\ event' = "translate_next_file"
  /\ UNCHANGED <<translator, bench, file_queue, failed_files, current_file_index,
                 signals>>

WindowNext ==
  \/ ClickStart
  \/ ClickCancel
  \/ ClickRetry
  \/ WorkerEnds
  \/ DeliverComplete
  \/ DeliverError
  \/ DeliverFinished
  \/ TimerFires

WindowSpec == WindowInit /\ [][WindowNext]_vars

(* ====================================================================== *)
(*                               properties                               *)
(* ====================================================================== *)
\* the blocks a progress file holds when parsed (none when it is absent)
ProgressBlocks(file) == IF file = NoFile THEN << >> ELSE extract_srt_blocks(file)

\* the steps in which a request met a quota error
QuotaEvents == {"quota_retry", "quota_rotate", "all_exhausted"}
\* the steps in which _handle_quota_exhaustion ran
ExhaustionEvents == {"quota_rotate", "all_exhausted"}
\* the steps in which translate_file reached line 242
CompleteEvents == {"complete", "complete_heuristic"}
\* the steps that begin a new call of translate_file
StartEvents == {"start", "input_missing"}

\* C1: a run started with save_progress enabled on a progress file that
\* parses to k >= 1 blocks starts from exactly those blocks, in order, and
\* never sends the first-request message: the run goes straight to the loop
\* and every request it issues is a continue request.
C1_Resumption ==
  [][ /\ ( /\ event' = "start"
           /\ save_progress'
           /\ ProgressBlocks(progress_file) # << >> )
         => /\ translated_content' = ProgressBlocks(progress_file)
            /\ resumed'
            /\ pc' = "loop"
      /\ resumed' => (~first_sent' /\ pc' # "first_request") ]_vars

\* a resumed run with fewer blocks than the total has issued a continue request
C1_Witness ==
  /\ resumed
  /\ pc = "continue_request"
  /\ Len(translated_content) < total_blocks
  /\ translated_content = ProgressBlocks(progress_file)

\* C2 (as stated): whenever translate_file has completed, the output file
\* holds the joined accumulated blocks and no progress file exists, whatever
\* save_progress is.
C2_Original ==
  pc = "done" => /\ output_file = JoinBlocks(translated_content)
                 /\ progress_file = NoFile

\* C2 (amended): on completion the output file holds the joined accumulated
\* blocks; with save_progress enabled no progress file exists afterwards,
\* with save_progress disabled the progress file is left as it was.
C2_Completion ==
  [][ event' \in CompleteEvents
        => /\ pc' = "done"
           /\ output_file' = JoinBlocks(translated_content')
           /\ translated_content' = translated_content
           /\ progress_file' = IF save_progress THEN NoFile ELSE progress_file ]_vars

\* a resumed run stopped by the heuristic: the progress file it was resumed
\* from is gone and the output is short of the total
C2_Witness ==
  /\ pc = "done"
  /\ event = "complete_heuristic"
  /\ save_progress
  /\ resumed
  /\ progress_file = NoFile
  /\ Len(output_file) < total_blocks

\* C3 (as stated): a cancelled iteration returns from the loop top without
\* a request, without writing the output, without touching the tracker, and
\* leaves the progress file holding exactly the accumulated blocks.
C3_Original ==
  [][ event' = "cancelled"
        => /\ pc = "loop" /\ pc' = "cancelled"
           /\ output_file' = output_file
           /\ near_completion_count' = near_completion_count
           /\ last_block_count' = last_block_count
           /\ ProgressBlocks(progress_file') = translated_content' ]_vars

\* C3 (amended): a cancelled iteration returns from the loop top (never
\* from a request in flight) without a request, without writing the output
\* and without touching the tracker, also when the heuristic would have
\* stopped the job; it leaves the progress file unchanged, and with
\* save_progress enabled that file holds exactly the accumulated blocks.
\* The next request, if any, belongs to a new call.
C3_Cancellation ==
  [][ /\ event' = "cancelled"
           => /\ pc = "loop" /\ pc' = "cancelled"
              /\ output_file' = output_file
              /\ near_completion_count' = near_completion_count
              /\ last_block_count' = last_block_count
              /\ progress_file' = progress_file
              /\ translated_content' = translated_content
              /\ save_progress' => ProgressBlocks(progress_file') = translated_content'
      /\ event = "cancelled" => event' \in StartEvents ]_vars

\* a job is cancelled in an iteration in which the heuristic would have stopped it
C3_Witness ==
  /\ event = "cancelled"
  /\ save_progress
  /\ translated_content # << >>
  /\ NearStop(NearCount(Len(translated_content), total_blocks,
                        near_completion_count, last_block_count))

\* C4: an error other than a quota error ends the run at once: the request
\* is not retried, no credential is marked or rotated, the output file is
\* not written and the progress file keeps its content.
C4_ErrorPropagates ==
  [][ /\ event' = "api_error"
           => /\ pc \in Requesting /\ pc' = "failed"
              /\ exhausted_keys' = exhausted_keys
              /\ current_key_index' = current_key_index
              /\ output_file' = output_file
              /\ progress_file' = progress_file
      /\ event = "api_error" => event' \in StartEvents ]_vars

\* a continue request fails after a checkpoint was written and retries were made
C4_Witness ==
  /\ event = "api_error"
  /\ pc = "failed"
  /\ retry_count > 0
  /\ progress_file # NoFile
  /\ ProgressBlocks(progress_file) # << >>

C6_Original ==
  [][ ( /\ pc \in Requesting
        /\ event' \in QuotaEvents
        /\ retry_count < max_retries )
      => /\ event' = "quota_retry"
         /\ retry_count' = retry_count + 1
         /\ current_key_index' = current_key_index
         /\ exhausted_keys' = exhausted_keys ]_vars

\* C6 (amended): a quota error at attempt a < max_retries - 1 is retried on
\* the same credential with attempt a+1; exhaustion handling runs exactly
\* on a quota error at attempt max_retries - 1, the max_retries-th failed
\* request in a row.
C6_RetryBudget ==
  [][ ( /\ pc \in Requesting
        /\ event' \in QuotaEvents )
      => IF retry_count < max_retries - 1
           THEN /\ event' = "quota_retry"
                /\ retry_count' = retry_count + 1
                /\ pc' = pc
                /\ current_key_index' = current_key_index
                /\ exhausted_keys' = exhausted_keys
           ELSE /\ event' \in ExhaustionEvents
                /\ retry_count = max_retries - 1
                /\ get_current_key(api_keys, current_key_index) \in exhausted_keys' ]_vars

\* the last retry of the budget has just been granted
C6_Witness ==
  /\ event = "quota_retry"
  /\ retry_count = max_retries - 1
  /\ pc = "continue_request"

\* C7: after a rotation the same request is retried from attempt 0; every
\* credential, the first and the rotated-to ones alike, is marked exhausted
\* on its max_retries-th quota-failed request in a row; and every new
\* request of a job starts at attempt 0.
C7_FreshBudget ==
  [][ /\ event' = "quota_rotate"
           => /\ retry_count' = 0
              /\ pc' = pc
              /\ translated_content' = translated_content
      /\ event' \in ExhaustionEvents => quota_fails + 1 = max_retries
      /\ event' \in {"start", "continue"} => retry_count' = 0 ]_vars

\* the second credential is exhausted after the first one was
C7_Witness ==
  /\ event = "all_exhausted"
  /\ current_key_index = 1
  /\ api_keys = <<1, 2>>
  /\ exhausted_keys = {1, 2}

\* C8: the stop decision of the heuristic in a job is the decision a tracker
\* reset at the start of that job takes on the same observations.
C8_TrackerPerJob ==
  event \in {"continue", "complete_heuristic"}
    => (NearStop(near_completion_count) <=> NearStop(job_streak))

\* C9: the progress file never parses to more blocks than the input has,
\* and neither does the accumulated sequence.
C9_ProgressWithinTotal ==
  (pc # "idle" /\ event # "input_missing")
    => /\ Len(ProgressBlocks(progress_file)) <= total_blocks
       /\ Len(translated_content) <= total_blocks

\* C10: with save_progress enabled, from the start of a run to its failure
\* or cancellation the progress file parses to exactly the accumulated
\* blocks, so every reply is checkpointed before the next request; and a
\* run started with save_progress enabled after a failed or cancelled one
\* starts from the blocks that one had accumulated.
C10_Checkpoint ==
  [][ /\ ( /\ save_progress'
           /\ pc' \in Requesting \cup {"loop", "failed", "cancelled"}
           /\ event' # "input_missing" )
         => ProgressBlocks(progress_file') = translated_content'
      /\ ( /\ pc \in {"failed", "cancelled"}
           /\ event # "input_missing"
           /\ save_progress
           /\ event' = "start"
           /\ save_progress' )
         => translated_content' = translated_content ]_vars

\* a second run has resumed from the two blocks an interrupted first run
\* had checkpointed
C10_Witness ==
  /\ jobs = 2
  /\ event = "start"
  /\ resumed
  /\ save_progress
  /\ Len(translated_content) = 2

\* C12: below the 99% threshold the heuristic never stops a job: a loop
\* iteration with fewer blocks than the total and below 99% that is not
\* cancelled issues a continue request, and a job stopped by the heuristic
\* is at or above 99%.
C12_BelowThresholdContinues ==
  [][ /\ ( /\ pc = "loop"
           /\ Len(translated_content) < total_blocks
           /\ Len(translated_content) * 100 < NearPercent * total_blocks
           /\ event' # "cancelled" )
         => /\ event' = "continue"
            /\ pc' = "continue_request"
            /\ near_completion_count' = 0
      /\ event' = "complete_heuristic"
           => Len(translated_content) * 100 >= NearPercent * total_blocks ]_vars

\* a job below the threshold goes on after a continuation that added nothing
C12_Witness ==
  /\ event = "continue"
  /\ pc = "continue_request"
  /\ first_sent
  /\ translated_content # << >>
  /\ job_last = Len(translated_content)
  /\ job_streak = 0
  /\ Len(translated_content) * 100 < NearPercent * total_blocks

\* C16: a call on a missing input file fails before a session is opened or
\* a request issued and leaves the output file and the progress file alone.
C16_InputMissing ==
  [][ /\ event' = "input_missing"
           => /\ pc' = "failed"
              /\ chat' = chat
              /\ ~first_sent'
              /\ output_file' = output_file
              /\ progress_file' = progress_file
      /\ event = "input_missing" => event' \in StartEvents ]_vars

\* the call on a missing input file found a progress file and left it
C16_Witness ==
  /\ event = "input_missing"
  /\ save_progress
  /\ progress_file # NoFile
  /\ chat = None

\* C19: a continue message is only sent on a session whose history holds
\* the first request of the job, the input text.
C19_ContinueOnInputSession ==
  pc = "continue_request" => chat = InputSession

\* the block count of the k-th most recent call of _check_near_completion,
\* and whether that call was at or above 99% of its total
Observed(k) == observations[Len(observations) + 1 - k][1]
ObservedNear(k) ==
  Observed(k) * 100 >= NearPercent * observations[Len(observations) + 1 - k][2]

\* C11: the streak counter follows the rule on every call of the heuristic
\* (at >= 99%: +1 if the count equals the last observed count, otherwise 1;
\* below 99%: 0; the last observed count is always updated), and the same
\* count observed twice in a row at >= 99% returns true on the second call.
C11_StreakRule ==
  [][ event' = "observe" =>
        LET current == observations'[Len(observations')][1]
            total == observations'[Len(observations')][2]
        IN  /\ last_block_count' = current
            /\ near_completion_count' =
                 IF current * 100 >= NearPercent * total
                   THEN IF current = last_block_count
                          THEN near_completion_count + 1
                          ELSE 1
                   ELSE 0
            /\ returned' = (near_completion_count' >= NearStreak)
            /\ ( /\ observations # << >>
                 /\ Observed(1) = current
                 /\ ObservedNear(1)
                 /\ current * 100 >= NearPercent * total )
               => returned' ]_vars

\* the second of two calls with the same count at >= 99% returned true
C11_Witness ==
  /\ event = "observe"
  /\ Len(observations) = 2
  /\ Observed(1) = Observed(2)
  /\ ObservedNear(1)
  /\ ObservedNear(2)
  /\ Observed(1) < observations[2][2]
  /\ returned

\* C13: after N cycles of mark_key_exhausted(get_current_key()) and
\* rotate_key() on a list of N credentials, has_available_keys() is false.
C13_CyclesExhaust ==
  (unit = "rotator" /\ cycles = Len(api_keys))
    => ~has_available_keys(exhausted_keys, api_keys)

\* C14: every delay _calculate_backoff can return is at most 1.1 times
\* max_backoff, and is at least every delay it can return for a smaller
\* attempt number whose delay before jitter is below max_backoff.
C14_BackoffBounds ==
  event = "calculate_backoff" =>
    /\ 10 * delay <= 11 * max_backoff
    /\ \A n \in 0..(retry_count - 1) :
         base_delay * (2 ^ n) < max_backoff
           => \A d \in calculate_backoff(n) : d <= delay

\* the largest delay of the first capped attempt has been returned
C14_Witness ==
  /\ event = "calculate_backoff"
  /\ base_delay * (2 ^ retry_count) > max_backoff
  /\ base_delay * (2 ^ (retry_count - 1)) < max_backoff
  /\ 10 * delay = 11 * max_backoff

\* C17: on a clean concatenation of well-formed blocks count_srt_blocks
\* gives the number of blocks extract_srt_blocks returns.
C17_CountIsExtract ==
  event = "parse" => counted = Len(extracted)

\* C18 as stated: when the heuristic returns true, each of the two most
\* recent observations was at >= 99% and had the count observed just
\* before it.
C18_Original ==
  (event = "observe" /\ returned)
    => /\ Len(observations) >= 3
       /\ ObservedNear(1)
       /\ ObservedNear(2)
       /\ Observed(1) = Observed(2)
       /\ Observed(2) = Observed(3)

\* C18: when the heuristic returns true, the two most recent observations
\* of the tracker were both at >= 99% and had the same block count.
C18_TwoEqualObservations ==
  (event = "observe" /\ returned)
    => /\ Len(observations) >= 2
       /\ ObservedNear(1)
       /\ ObservedNear(2)
       /\ Observed(1) = Observed(2)

\* the heuristic returned true on the first observation that repeats a count
C18_Witness ==
  /\ event = "observe"
  /\ returned
  /\ Len(observations) >= 3
  /\ Observed(2) # Observed(3)
  /\ Observed(1) < observations[Len(observations)][2]

\* delay(n) of the backoff policy: min(max_backoff, base_delay * 2^n) plus a
\* jitter of at most a tenth of it
StatedDelay(n) ==
  LET d == Min(max_backoff, base_delay * (2 ^ n))
  IN  {d + j : j \in 0..(d \div 10)}

\* C20 as stated: before retry attempt N >= 1 the engine waits
\* min(max_backoff, base_delay * 2^N) plus jitter, and nothing at attempt 0.
C20_Original ==
  event = "wait_with_backoff" =>
    IF retry_count = 0 THEN slept = 0 ELSE slept \in StatedDelay(retry_count)

\* C20: attempt 0 is issued with no wait, and before retry attempt N >= 1 the
\* engine waits min(max_backoff, base_delay * 2^(N-1)) plus a jitter of at
\* most a tenth of that value.
C20_WaitBeforeAttempt ==
  event = "wait_with_backoff" =>
    IF retry_count = 0
      THEN slept = 0
      ELSE slept \in StatedDelay(retry_count - 1)

\* the longest wait before the last attempt on a credential
C20_Witness ==
  /\ event = "wait_with_backoff"
  /\ retry_count = max_retries - 1
  /\ slept = base_delay * (2 ^ (retry_count - 1))
               + (base_delay * (2 ^ (retry_count - 1))) \div 10

\* C15: jobs run one at a time: at most one worker is running translate_file.
C15_OneWorker ==
  Cardinality(Running) <= 1

\* the texts a sequence of blocks holds
Texts(blocks) == {blocks[i] : i \in 1..Len(blocks)}

\* C21: a block of a continuation reply is appended to the accumulated
\* sequence iff its text is not yet present in it; a reply of blocks already
\* accumulated, or of no valid block, leaves the sequence unchanged; blocks
\* already accumulated are never removed or reordered.
C21_Deduplication ==
  [][ (unit = "continuation" /\ event' = "response") =>
        LET old == translated_content
            new == translated_content'
            valid == {response'[i] : i \in {j \in 1..Len(response') : response'[j] # 0}}
            added == SubSeq(new, Len(old) + 1, Len(new))
        IN  /\ Len(new) >= Len(old)
            /\ SubSeq(new, 1, Len(old)) = old
            /\ Texts(added) = valid \ Texts(old)
            /\ \A i, j \in 1..Len(added) : i # j => added[i] # added[j]
            /\ valid \subseteq Texts(old) => new = old ]_vars

\* a reply that repeats a new block around a line of prose added it once
C21_Witness ==
  /\ unit = "continuation"
  /\ event = "response"
  /\ response = <<2, 0, 2>>
  /\ translated_content = <<1, 2>>

\* C22: when every request fails with a quota error, _make_api_request ends
\* by raising the all-credentials-exhausted error after at most max_retries
\* requests per credential of the list.
C22_RequestsBounded ==
  unit = "request" =>
    /\ requests <= max_retries * Len(api_keys)
    /\ requests = max_retries * Len(api_keys) => event = "all_exhausted"

\* C23: the accumulated sequence never holds two blocks with the same text.
C23_NoDuplicates ==
  \A i, j \in 1..Len(translated_content) :
    i # j => translated_content[i] # translated_content[j]

\* the engine was constructed with pairwise distinct credentials
DistinctKeys ==
  \A i, j \in 1..Len(api_keys) : i # j => api_keys[i] # api_keys[j]

\* C24: on an engine with pairwise distinct credentials, the credential that
\* is current while a request is issued is not in the exhausted set, and the
\* current index stays within 0..N-1.
C24_CurrentNotExhausted ==
  DistinctKeys =>
    /\ current_key_index \in 0..(Len(api_keys) - 1)
    /\ pc \in Requesting
         => get_current_key(api_keys, current_key_index) \notin exhausted_keys

\* C25: _check_near_completion is never applied with a total of 0 blocks:
\* a job that applied it or sent a continue request has a positive total, so
\* a job on an input of no block never enters the continuation loop.
C25_HeuristicTotalPositive ==
  /\ event \in {"continue", "complete_heuristic"} => total_blocks > 0
  /\ pc = "continue_request" => total_blocks > 0

\* a job on an input of no block completed after its first request
C25_Witness ==
  /\ event = "complete"
  /\ total_blocks = 0
  /\ first_sent
  /\ output_file # NoFile
  /\ near_completion_count = 0

\* C27: a call with save_progress disabled never reads, writes or deletes
\* the progress file: it starts with a first request whatever the file
\* holds, and every step of it leaves the file as it was.
C27_ProgressUntouched ==
  [][ /\ (event' = "start" /\ ~save_progress')
           => /\ translated_content' = << >>
              /\ ~resumed'
              /\ pc' = "first_request"
      /\ ~save_progress' => progress_file' = progress_file ]_vars

\* a call with save_progress disabled completed beside the progress file
\* of an earlier run, whose blocks are not those of the output
C27_Witness ==
  /\ ~save_progress
  /\ event \in CompleteEvents
  /\ first_sent
  /\ progress_file # NoFile
  /\ ProgressBlocks(progress_file) # << >>
  /\ output_file # progress_file

\* C26: after a cancel no file of the queue is started until the user starts
\* the queue again: a worker is created by translate_next_file from the
\* timer only while the queue is running.
C26_NoStartAfterCancel ==
  [][ (event' = "translate_next_file" /\ Len(workers') > Len(workers))
        => is_translation_running ]_vars

====
